---------------------------- MODULE Spec2Model ----------------------------
(***************************************************************************)
(* Model of the garage-door controller core of homekit-ratgdo (ESP32       *)
(* port): the Security+ 2.0 comms task (src/src/comms.cpp), its rolling    *)
(* code kept in NVRAM (src/src/config.cpp), the packet queue, the door     *)
(* state derived from Status packets, the time-to-close timer and the      *)
(* control surface called from the HomeKit and web tasks.                  *)
(*                                                                         *)
(* Every handler is one atomic action.  A UART event is modelled as one    *)
(* complete packet: an event carrying k packets is handled by k            *)
(* applications of the same per-packet code with nothing in between.       *)
(***************************************************************************)
EXTENDS Integers, Sequences, FiniteSets, TLC

(***************************** program constants ***************************)
MAX_CODES_WITHOUT_FLASH_WRITE == 10
\* rolling_code = (rolling_code + 1) & 0xfffffff
RollingModulus == 268435456
\* pkt_q = xQueueCreate(5, sizeof(PacketAction))
PktQueueLen == 5
\* id_code = (gen(rng) << 12) | 0x539
IdShift == 4096
IdLow == 1337
IdDrawMin == 1
IdDrawMax == 4095
DoorPressDelay == 250
DoorReleaseDelay == 40
LockPressDelay == 3000
Uint8Modulus == 256
MotionHold == 5000             \* ms a motion trigger keeps motion true
RecoveryWindow == 3000         \* ms in which the presses have to fall
RecoveryPresses == 5
force_recover_delay == 3
CHECK_PERIOD == 50             \* ms between two obstruction samples
PULSES_LOWER_LIMIT == 3
AsleepHold == 700              \* ms of steady high that mean an obstruction
Speed == 9600                  \* bits per second of the Security+ 2.0 line

(********************************* bounds **********************************)
\* reboots (clean or unclean) explored after the first power-on
MaxBoots == 1
\* events from outside the comms task (control-surface calls that have an
\* effect, received packets, timer ticks) explored by the rolling-code
\* specification and by the door specification
MaxRollOps == 3
MaxOps == 4
\* the same events where every control-surface call is observed
MaxCallOps == 3
MaxMotionOps == 2
MaxPresses == 6
TickMs == 1000                 \* ms by which one step of time advances
MaxNow == 6000                 \* the clock stops here
MaxObstOps == 8
MaxPulses == 5                 \* the pulse counter is explored up to here
MaxSec1Ops == 4
MaxWallOps == 3
MaxGap == 3                    \* idle bit periods between the two frames, short case
LongGap == 25                  \* idle bit periods between the two frames, long case
MaxStopLow == 2                \* bit periods the line stays low from the stop bit on
LeadBits == 5                  \* idle bit periods before the first frame

Absent == 0 - 1
NoCounter == 0 - 1
NoObs == 0 - 1
NoByte == 0 - 1

\* values the "rolling" key may hold at power-on: absent (first boot), the
\* spec's warm-boot example, and values within 10 of the 28-bit limit
NvRollingChoices == {Absent, 57, RollingModulus - 12, RollingModulus - 5}
\* configured time-to-close delays (seconds): off, the shortest, and one
\* whose doubled value does not fit the uint8_t countdown
TTCChoices == {0, 1, 129}
\* the motionTriggers configurations explored: none, and the three keys
TriggerChoices == {{}, {"doorKey", "lightKey", "lockKey"}}

VARIABLES
    nvRam,            \* NVS key/value store: survives reboots
    cfgTTC,           \* userConfig->getTTCseconds()
    pc,               \* position of the comms task
    restarting,       \* sync_and_restart has saved and not yet called esp_restart
    id_code, rolling_code, last_saved_code,
    pkt_q,            \* queue of PacketAction, capacity 5
    uart_q,           \* received packets not yet processed by the comms task
    garage_door,      \* struct GarageDoor
    TTCcountdown, TTCwasLightOn, TTC_Action, TTCtimer,
    rxPin,            \* gpio_get_level(UART_RX_PIN): 1 = bus asserted by another station
    \* ---- observation (history) variables, not program state ----
    txCount,          \* transmitSec2 calls since boot
    lastTx,           \* the last transmitSec2 call
    lastIncCounter,   \* counter of the last frame written with inc_counter
    sentMax,          \* largest counter embedded in any frame written so far
    sinceTx,          \* ms since the last transmitSec2 call, up to 250
    prevMax,          \* sentMax at the last reboot
    bootR,            \* rolling value read from NVRAM at this boot
    lastRxDoor,       \* door value of the last received Status with a known door
    boots, ops,
    opLimit,          \* the bound on ops of the specification being explored
    lastCall,         \* the last control-surface call, where calls are observed
    notes,            \* the notifications emitted by the last packet or timer step
    activeNotes,      \* notify_homekit_active calls since boot
    \* ---- wall console, motion sensor and time ----
    now,              \* millis()
    motionTriggers,   \* userConfig motionTriggers: the set of bits that are 1
    push_count, timeout,   \* struct ForceRecover
    softAP,           \* userConfig cfg_softAPmode
    pressTimes,       \* observation: millis() of the last presses seen, newest last
    \* ---- obstruction sensor ----
    low_count, last_asleep,    \* struct obstruction_sensor_t
    last_millis,      \* static of obstruction_timer
    obstPin,          \* digitalRead(INPUT_OBST_PIN)
    obstNotes,        \* observation: notify_homekit_obstruction calls since boot
    \* ---- Security+ 1.0 door status (the block of comms_loop_sec1) ----
    prevDoor, gd_currentstate, gd_TargetState,   \* function statics
    lastObs,          \* observation: the previous door value observed, none at boot
    \* ---- SoftUart receiver ----
    invert,           \* SoftUart::invert
    rx_state, rx_bit_count, rx_byte,   \* the receive state machine
    last_isr_ticks, last_isr_level,    \* the previous ISREvent
    rx_q,             \* the byte queue, oldest first
    edges,            \* the edges the line still has to show: [ticks, level]
    sentByte          \* observation: the well-formed byte on the line, none without

nvVars == <<nvRam, cfgTTC>>
codeVars == <<id_code, rolling_code, last_saved_code>>
ttcVars == <<TTCcountdown, TTCwasLightOn, TTC_Action, TTCtimer>>
txObs == <<txCount, lastTx, lastIncCounter, sentMax, sinceTx>>
budgetVars == <<boots, ops, opLimit, restarting>>
vars == <<nvRam, cfgTTC, pc, restarting, id_code, rolling_code, last_saved_code, pkt_q, uart_q,
          garage_door, TTCcountdown, TTCwasLightOn, TTC_Action, TTCtimer, rxPin,
          txCount, lastTx, lastIncCounter, sentMax, sinceTx, prevMax, bootR,
          lastRxDoor, boots, ops, opLimit, lastCall, notes, activeNotes,
          now, motionTriggers, push_count, timeout, softAP, pressTimes,
          low_count, last_asleep, last_millis, obstPin, obstNotes,
          prevDoor, gd_currentstate, gd_TargetState, lastObs,
          invert, rx_state, rx_bit_count, rx_byte, last_isr_ticks, last_isr_level,
          rx_q, edges, sentByte>>
uartVars == <<invert, rx_state, rx_bit_count, rx_byte, last_isr_ticks, last_isr_level,
              rx_q, edges, sentByte>>
sec1Vars == <<prevDoor, gd_currentstate, gd_TargetState, lastObs>>
wallVars == <<now, motionTriggers, push_count, timeout, softAP, pressTimes>>
obstVars == <<low_count, last_asleep, last_millis, obstPin, obstNotes>>
rxObs == <<notes, activeNotes, wallVars, obstVars, sec1Vars, uartVars>>

\* the record of a control-surface call; seq tells two equal calls apart
Call(op, arg, seq) == [op |-> op, arg |-> arg, seq |-> seq]
NoCall == Call("none", FALSE, 0)
CallsOff == Call("off", FALSE, 0)

\* a control-surface call is made: recorded where calls are observed
Called(op, arg) ==
    lastCall' = IF lastCall = CallsOff THEN lastCall ELSE Call(op, arg, 1 - lastCall.seq)

Max(a, b) == IF a >= b THEN a ELSE b

(******************************* NVRAM *************************************)
\* nvRamClass::read: the stored value, or the default when the key is absent
NvRead(key, dflt) == IF nvRam[key] = Absent THEN dflt ELSE nvRam[key]
\* nvRamClass::write
NvWrite(store, key, value) == [store EXCEPT ![key] = value]
\* nvRamClass::erase
NvErase(store, key) == [store EXCEPT ![key] = Absent]

(******************************* packets ***********************************)
Packet(cmd, arg, pressed) == [cmd |-> cmd, arg |-> arg, pressed |-> pressed]
PacketAction(pkt, inc, delay) == [pkt |-> pkt, inc_counter |-> inc, delay |-> delay]

NoTx == [pkt |-> Packet("None", "None", FALSE), inc_counter |-> FALSE, delay |-> 0,
         counter |-> NoCounter, wrote |-> FALSE]

\* Packet::encode: fails when the rolling value does not fit its 28 bits
EncodeOk(rolling) == rolling < RollingModulus

\* struct GarageDoor garage_door: a zero-initialised global
GarageDoorZero ==
    [active |-> FALSE, current_state |-> "CURR_OPEN", target_state |-> "TGT_OPEN",
     light |-> FALSE, current_lock |-> "CURR_UNLOCKED", target_lock |-> "TGT_UNLOCKED",
     motion |-> FALSE, motion_timer |-> 0, has_motion_sensor |-> FALSE,
     obstructed |-> FALSE]

(***************************** rolling code ********************************)
\* the startup bump of the stored rolling code
BumpRolling(r) == IF r # 0 THEN r + MAX_CODES_WITHOUT_FLASH_WRITE ELSE 0

\* mutant: the increment without the 28-bit mask
NextRollingNoMask(r, inc) == IF inc THEN r + 1 ELSE r

\* the counter after transmitSec2 has handled an action
NextRolling(r, inc) == IF inc THEN (r + 1) % RollingModulus ELSE r

\* the save test at the end of a comms loop iteration
NeedSave(r, saved) == r >= saved + MAX_CODES_WITHOUT_FLASH_WRITE

\* mutant: a queue without a capacity
QueueSendToBackNoLimit(q, a) == Append(q, a)

\* xQueueSendToBack(pkt_q, &pkt_ac, 0): dropped when the queue is full
QueueSendToBack(q, a) == IF Len(q) < PktQueueLen THEN Append(q, a) ELSE q

GetStatusAction == PacketAction(Packet("GetStatus", "None", FALSE), TRUE, 0)

\* mutant: send_get_status enqueues nothing, whatever the protocol
SendGetStatusNever(secType, q) == q

\* send_get_status under the configured protocol: only Security+ 2.0 enqueues
SendGetStatusFor(secType, q) ==
    IF secType = 2 THEN QueueSendToBack(q, GetStatusAction) ELSE q

\* send_get_status as the control surface calls it (Security+ 2.0 is configured)
SendGetStatus(q) == SendGetStatusFor(2, q)


(***************************** transmitSec2 ********************************)
\* the value handed to Packet::encode: rolling_code as it is before the increment
TxCounter(r, inc) == r

\* transmitSec2 returns true on every path (the collision check is commented out)
TransmitSec2Result(busy) == TRUE

\* xQueueSendToFront(pkt_q, &pkt_ac, 0): dropped when the queue is full
QueueSendToFront(q, a) == IF Len(q) < PktQueueLen THEN <<a>> \o q ELSE q

\* transmitSec2(pkt_ac): encode with rolling_code, write the frame unless the
\* encoding failed, then step the counter when inc_counter is set
TransmitSec2(a) ==
    LET c == TxCounter(rolling_code, a.inc_counter)
        wrote == EncodeOk(c)
    IN  /\ rolling_code' = NextRolling(rolling_code, a.inc_counter)
        /\ txCount' = txCount + 1
        /\ lastTx' = [pkt |-> a.pkt, inc_counter |-> a.inc_counter, delay |-> a.delay,
                      counter |-> c, wrote |-> wrote]
        /\ sinceTx' = 0
        /\ sentMax' = IF wrote THEN Max(sentMax, c) ELSE sentMax
        /\ lastIncCounter' = IF wrote /\ a.inc_counter THEN c ELSE lastIncCounter

\* save_rolling_code: the store after the write of rolling_code
SaveRollingCode(store, r) == NvWrite(store, "rolling", r)

\* save_rolling_code, when the loop's test asks for it
SaveIfNeeded(r) ==
    IF NeedSave(r, last_saved_code)
    THEN /\ nvRam' = NvWrite(nvRam, "rolling", r)
         /\ last_saved_code' = r
    ELSE UNCHANGED <<nvRam, last_saved_code>>

\* the motion-sensor flag a boot starts with: the stored has_motion
HasMotionAtBoot(store) == store["has_motion"] # Absent /\ store["has_motion"] # 0

(***************************** comms task **********************************)
IdDraws == {IdDrawMin, IdDrawMax}

\* mutant: a fresh id_code is drawn at every startup
NewIdCodeAlwaysDraw(stored, r) == r * IdShift + IdLow

\* id_code at startup: the stored one unless it is 0, else (r << 12) | 0x539
NewIdCode(stored, r) == IF stored # 0 THEN stored ELSE r * IdShift + IdLow

\* comms_task_entry up to the creation of the packet queue
Startup ==
    /\ pc = "start"
    /\ \E r \in IdDraws :
        LET storedId == NvRead("id_code", 0)
            newId == NewIdCode(storedId, r)
            nv1 == IF storedId # 0 THEN nvRam ELSE NvWrite(nvRam, "id_code", newId)
            stored == NvRead("rolling", 0)
            rc == BumpRolling(stored)
        IN  /\ id_code' = newId
            /\ rolling_code' = rc
            /\ nvRam' = NvWrite(nv1, "rolling", rc)
            /\ last_saved_code' = rc
            /\ bootR' = stored
    /\ pkt_q' = <<>>
    /\ pc' = "sync1"
    /\ garage_door' = [garage_door EXCEPT !.has_motion_sensor = HasMotionAtBoot(nvRam)]
    /\ UNCHANGED <<cfgTTC, uart_q, ttcVars, rxPin, txObs, prevMax,
                   lastRxDoor, budgetVars>>
    /\ UNCHANGED lastCall
    /\ UNCHANGED rxObs

\* sync(): first transmit, GetOpenings
SyncGetOpenings ==
    /\ pc = "sync1"
    /\ TransmitSec2(PacketAction(Packet("GetOpenings", "None", FALSE), TRUE, 0))
    /\ pc' = "sync2"
    /\ UNCHANGED <<nvVars, id_code, last_saved_code, pkt_q, uart_q, garage_door,
                   ttcVars, rxPin, prevMax, bootR, lastRxDoor, budgetVars>>
    /\ UNCHANGED lastCall
    /\ UNCHANGED rxObs

\* sync(): second transmit, GetStatus; then the initial send_get_status when
\* the receive pin reads 0
SyncGetStatus ==
    /\ pc = "sync2"
    /\ TransmitSec2(GetStatusAction)
    /\ pkt_q' = IF rxPin = 0 THEN SendGetStatus(pkt_q) ELSE pkt_q
    /\ pc' = "loop"
    /\ UNCHANGED <<nvVars, id_code, last_saved_code, uart_q, garage_door,
                   ttcVars, rxPin, prevMax, bootR, lastRxDoor, budgetVars>>
    /\ UNCHANGED lastCall
    /\ UNCHANGED rxObs

\* comms_loop_sec2, commsEvent == pkt_q
LoopTx ==
    /\ pc = "loop"
    /\ pkt_q # <<>>
    /\ LET a == Head(pkt_q)
       IN  /\ TransmitSec2(a)
           /\ pkt_q' = IF TransmitSec2Result(rxPin = 1)
                       THEN Tail(pkt_q)
                       ELSE QueueSendToFront(Tail(pkt_q), a)
           /\ SaveIfNeeded(NextRolling(rolling_code, a.inc_counter))
    /\ UNCHANGED <<cfgTTC, pc, id_code, uart_q, garage_door, ttcVars, rxPin,
                   prevMax, bootR, lastRxDoor, budgetVars>>
    /\ UNCHANGED lastCall
    /\ UNCHANGED rxObs

(*************************** control surface *******************************)
\* door_command(action): press, release, then send_get_status
DoorCommand(q, action) ==
    LET press == PacketAction(Packet("DoorAction", action, TRUE), FALSE, DoorPressDelay)
        release == PacketAction(Packet("DoorAction", action, FALSE), TRUE, DoorReleaseDelay)
    IN  SendGetStatus(QueueSendToBack(QueueSendToBack(q, press), release))

\* mutant: set_light without the test for the state that already holds
SetLightQueueAlways(q, light, value) ==
    SendGetStatus(QueueSendToBack(q,
        PacketAction(Packet("Light", IF value THEN "On" ELSE "Off", FALSE), TRUE, 0)))

\* the queue after set_light(value)
SetLightQueue(q, light, value) ==
    IF value = light
    THEN q
    ELSE SendGetStatus(QueueSendToBack(q,
             PacketAction(Packet("Light", IF value THEN "On" ELSE "Off", FALSE), TRUE, 0)))

\* set_light(value), called from the HomeKit or web task
SetLight ==
    /\ pc # "start"
    /\ ops < opLimit
    /\ \E value \in BOOLEAN :
          /\ Called("set_light", value)
          /\ pkt_q' = SetLightQueue(pkt_q, garage_door.light, value)
          /\ ops' = IF value = garage_door.light THEN ops ELSE ops + 1
    /\ UNCHANGED <<nvVars, pc, codeVars, uart_q, garage_door, ttcVars, rxPin, txObs,
                   prevMax, bootR, lastRxDoor, boots, opLimit, restarting>>
    /\ UNCHANGED rxObs

\* what the body of TTCdelayLoop does to the queue once --TTCcountdown gave c
TickQueue(q, c) ==
    IF c > 0
    THEN SetLightQueue(q, garage_door.light, ~garage_door.light)
    ELSE IF TTC_Action = "door_command_close" THEN DoorCommand(q, "Close") ELSE q

\* close_door() runs in the calling task and TTCdelayLoop in the timer service
\* task, with nothing that excludes one from the other.  A tick whose expiry
\* is already due when close_door cancels the countdown runs either not at all
\* during the call, or after the test of TTCcountdown and before xTimerStop,
\* or after TTCcountdown = 0 and before the timer service task handles the stop
TickRaces == {"none", "before_stop", "after_zero"}

\* close_door(), called from the HomeKit or web task
CloseDoor ==
    /\ pc # "start"
    \* TTCtimer is created after sync(): the timer paths need the comms loop
    /\ cfgTTC > 0 => pc = "loop"
    /\ ops < opLimit
    /\ ops' = IF garage_door.current_state = "CURR_CLOSED" THEN ops ELSE ops + 1
    /\ IF garage_door.current_state = "CURR_CLOSED"
       THEN UNCHANGED <<pkt_q, ttcVars>>
       ELSE IF garage_door.current_state = "CURR_OPENING"
       THEN /\ pkt_q' = DoorCommand(pkt_q, "Stop")
            /\ UNCHANGED ttcVars
       ELSE IF cfgTTC = 0
       THEN /\ pkt_q' = DoorCommand(pkt_q, "Close")
            /\ UNCHANGED ttcVars
       ELSE IF TTCcountdown > 0
       THEN /\ \E race \in TickRaces :
                 /\ race # "none" => TTCtimer
                 /\ TTCtimer' = FALSE
                 /\ TTCcountdown' = IF race = "after_zero"
                                    THEN (0 - 1) % Uint8Modulus ELSE 0
                 /\ pkt_q' =
                      IF race = "before_stop"
                      THEN DoorCommand(TickQueue(pkt_q, (TTCcountdown - 1) % Uint8Modulus),
                                       "Close")
                      ELSE IF race = "after_zero"
                      THEN TickQueue(DoorCommand(pkt_q, "Close"), (0 - 1) % Uint8Modulus)
                      ELSE DoorCommand(pkt_q, "Close")
            /\ UNCHANGED <<TTCwasLightOn, TTC_Action>>
       ELSE /\ TTCcountdown' = (cfgTTC * 2) % Uint8Modulus
            /\ TTCwasLightOn' = garage_door.light
            /\ TTC_Action' = "door_command_close"
            /\ TTCtimer' = TRUE
            /\ UNCHANGED pkt_q
    /\ UNCHANGED <<nvVars, pc, codeVars, uart_q, garage_door, rxPin, txObs,
                   prevMax, bootR, lastRxDoor, boots, opLimit, restarting>>
    /\ Called("close_door", FALSE)
    /\ UNCHANGED rxObs

\* mutant: open_door without the test for a closing door
OpenDoorActionNoStop(cs) == "Open"

\* the door action open_door sends when the door is not already open
OpenDoorAction(cs) == IF cs = "CURR_CLOSING" THEN "Stop" ELSE "Open"

\* open_door(), called from the HomeKit or web task
OpenDoor ==
    /\ pc # "start"
    /\ ops < opLimit
    /\ ops' = IF garage_door.current_state = "CURR_OPEN" THEN ops ELSE ops + 1
    /\ pkt_q' = IF garage_door.current_state = "CURR_OPEN"
                THEN pkt_q
                ELSE DoorCommand(pkt_q, OpenDoorAction(garage_door.current_state))
    /\ UNCHANGED <<nvVars, pc, codeVars, uart_q, garage_door, ttcVars, rxPin, txObs,
                   prevMax, bootR, lastRxDoor, boots, opLimit, restarting>>
    /\ Called("open_door", FALSE)
    /\ UNCHANGED rxObs

\* set_lock(value), called from the HomeKit or web task: target_lock is
\* written before the already-in-that-state test
SetLock ==
    /\ pc # "start"
    /\ ops < opLimit
    /\ \E value \in BOOLEAN :
        LET tgt == IF value THEN "TGT_LOCKED" ELSE "TGT_UNLOCKED"
            already == \/ value /\ garage_door.current_lock = "CURR_LOCKED"
                       \/ ~value /\ garage_door.current_lock = "CURR_UNLOCKED"
        IN  /\ Called("set_lock", value)
            /\ garage_door' = [garage_door EXCEPT !.target_lock = tgt]
            /\ pkt_q' = IF already
                        THEN pkt_q
                        ELSE SendGetStatus(QueueSendToBack(pkt_q,
                                 PacketAction(Packet("Lock", IF value THEN "On" ELSE "Off", FALSE),
                                              TRUE, 0)))
            /\ ops' = IF already THEN ops ELSE ops + 1
    /\ UNCHANGED <<nvVars, pc, codeVars, uart_q, ttcVars, rxPin, txObs,
                   prevMax, bootR, lastRxDoor, boots, opLimit, restarting>>
    /\ UNCHANGED rxObs

\* TTCdelayLoop, the callback of the 500 ms timer: --TTCcountdown on a uint8_t
TTCdelayLoop ==
    /\ TTCtimer
    /\ ops < opLimit
    /\ ops' = ops + 1
    /\ LET c == (TTCcountdown - 1) % Uint8Modulus
           restart == c = 0 /\ TTC_Action = "sync_and_restart"
       IN  /\ TTCcountdown' = c
           /\ TTCtimer' = (c > 0)
           /\ pkt_q' = TickQueue(pkt_q, c)
           /\ nvRam' = IF restart THEN SaveRollingCode(nvRam, rolling_code) ELSE nvRam
           /\ last_saved_code' = IF restart THEN rolling_code ELSE last_saved_code
           /\ restarting' = (restarting \/ restart)
    /\ UNCHANGED <<cfgTTC, pc, id_code, rolling_code, uart_q, garage_door, TTCwasLightOn,
                   TTC_Action, rxPin, txObs, prevMax, bootR, lastRxDoor, boots, opLimit>>
    /\ UNCHANGED lastCall
    /\ UNCHANGED rxObs

(************************** received packets *******************************)
DoorStates == {"Unknown", "Open", "Closed", "Stopped", "Opening", "Closing"}

\* received Status packets: every door value with light and lock off, and
\* one with both on
StatusPackets ==
    {[cmd |-> "Status", door |-> d, light |-> FALSE, lock |-> FALSE] : d \in DoorStates}
    \cup {[cmd |-> "Status", door |-> "Open", light |-> TRUE, lock |-> TRUE]}

\* the UART driver queues a received Status packet for the comms task
RxStatus ==
    /\ pc # "start"
    /\ ops < opLimit
    /\ ops' = ops + 1
    /\ \E p \in StatusPackets :
          /\ uart_q' = Append(uart_q, p)
          /\ lastRxDoor' = IF p.door # "Unknown" THEN p.door ELSE lastRxDoor
    /\ UNCHANGED <<nvVars, pc, codeVars, pkt_q, garage_door, ttcVars, rxPin, txObs,
                   prevMax, bootR, boots, opLimit, restarting>>
    /\ UNCHANGED lastCall
    /\ UNCHANGED rxObs

\* mutant: the Stopped case is missing from the switch
StatusCurrentNoStopped(door, cur) ==
    CASE door = "Open"    -> "CURR_OPEN"
      [] door = "Closed"  -> "CURR_CLOSED"
      [] door = "Opening" -> "CURR_OPENING"
      [] door = "Closing" -> "CURR_CLOSING"
      [] OTHER            -> cur

\* the switch on status.door: the current state a Status packet reports
StatusCurrent(door, cur) ==
    CASE door = "Open"    -> "CURR_OPEN"
      [] door = "Closed"  -> "CURR_CLOSED"
      [] door = "Stopped" -> "CURR_STOPPED"
      [] door = "Opening" -> "CURR_OPENING"
      [] door = "Closing" -> "CURR_CLOSING"
      [] OTHER            -> cur

\* the switch on status.door: the target state that goes with it
StatusTarget(door, tgt) ==
    CASE door = "Open"    -> "TGT_OPEN"
      [] door = "Closed"  -> "TGT_CLOSED"
      [] door = "Stopped" -> "TGT_OPEN"
      [] door = "Opening" -> "TGT_OPEN"
      [] door = "Closing" -> "TGT_CLOSED"
      [] OTHER            -> tgt

\* the target state chosen when the first Status packet activates the door
ActivationTarget(cs) ==
    IF cs = "CURR_OPENING" \/ cs = "CURR_OPEN" THEN "TGT_OPEN" ELSE "TGT_CLOSED"

\* case PacketCommand::Status: garage_door after the packet
StatusUpdate(gd, p) ==
    LET cs == StatusCurrent(p.door, gd.current_state)
        ts0 == StatusTarget(p.door, gd.target_state)
        ts == IF ~gd.active THEN ActivationTarget(cs) ELSE ts0
        doorChanged == ts # gd.target_state \/ cs # gd.current_state
        cl == IF p.lock THEN "CURR_LOCKED" ELSE "CURR_UNLOCKED"
        tl == IF p.lock THEN "TGT_LOCKED" ELSE "TGT_UNLOCKED"
        lockChanged == cl # gd.current_lock
    IN  [active |-> TRUE,
         current_state |-> IF doorChanged THEN cs ELSE gd.current_state,
         target_state |-> IF doorChanged THEN ts ELSE gd.target_state,
         light |-> IF p.light # gd.light THEN p.light ELSE gd.light,
         current_lock |-> IF lockChanged THEN cl ELSE gd.current_lock,
         target_lock |-> IF lockChanged THEN tl ELSE gd.target_lock,
         motion |-> gd.motion, motion_timer |-> gd.motion_timer,
         has_motion_sensor |-> gd.has_motion_sensor, obstructed |-> gd.obstructed]

\* mutant: notify_homekit_active on every Status packet
StatusNotesAlwaysActive(gd, p) ==
    LET cs == StatusCurrent(p.door, gd.current_state)
        ts == IF ~gd.active THEN ActivationTarget(cs)
                            ELSE StatusTarget(p.door, gd.target_state)
    IN  {"active"}
        \cup (IF ts # gd.target_state \/ cs # gd.current_state
              THEN {"current_door", "target_door"} ELSE {})
        \cup (IF p.light # gd.light THEN {"light"} ELSE {})
        \cup (IF (IF p.lock THEN "CURR_LOCKED" ELSE "CURR_UNLOCKED") # gd.current_lock
              THEN {"target_lock", "current_lock"} ELSE {})

\* mutant: the lock of a Status packet is compared with target_lock
StatusNotesByTarget(gd, p) ==
    LET cs == StatusCurrent(p.door, gd.current_state)
        ts == IF ~gd.active THEN ActivationTarget(cs)
                            ELSE StatusTarget(p.door, gd.target_state)
    IN  (IF ~gd.active THEN {"active"} ELSE {})
        \cup (IF ts # gd.target_state \/ cs # gd.current_state
              THEN {"current_door", "target_door"} ELSE {})
        \cup (IF p.light # gd.light THEN {"light"} ELSE {})
        \cup (IF (IF p.lock THEN "TGT_LOCKED" ELSE "TGT_UNLOCKED") # gd.target_lock
              THEN {"target_lock", "current_lock"} ELSE {})

\* the notify_homekit_* calls made while a Status packet is processed
StatusNotes(gd, p) ==
    LET cs == StatusCurrent(p.door, gd.current_state)
        ts == IF ~gd.active THEN ActivationTarget(cs)
                            ELSE StatusTarget(p.door, gd.target_state)
    IN  (IF ~gd.active THEN {"active"} ELSE {})
        \cup (IF ts # gd.target_state \/ cs # gd.current_state
              THEN {"current_door", "target_door"} ELSE {})
        \cup (IF p.light # gd.light THEN {"light"} ELSE {})
        \cup (IF (IF p.lock THEN "CURR_LOCKED" ELSE "CURR_UNLOCKED") # gd.current_lock
              THEN {"target_lock", "current_lock"} ELSE {})

\* mutant: the press that finds the window over still counts
ManualRecoveryNoReset(count, tmo, t) ==
    [count |-> count + 1,
     timeout |-> IF count = 0 THEN t + RecoveryWindow ELSE tmo,
     arm |-> count + 1 >= RecoveryPresses]

\* manual_recovery(): the press counter, its window and whether the soft-AP
\* restart is armed, for a press at time t
ManualRecovery(count, tmo, t) ==
    LET c == IF count = 0 THEN count + 1
             ELSE IF t > tmo THEN 0 ELSE count + 1
    IN  [count |-> c,
         timeout |-> IF count = 0 THEN t + RecoveryWindow ELSE tmo,
         arm |-> c >= RecoveryPresses]

\* manual_recovery() called by the comms task at time now
Recover ==
    LET r == ManualRecovery(push_count, timeout, now)
    IN  /\ push_count' = r.count
        /\ timeout' = r.timeout
        /\ pressTimes' = IF Len(pressTimes) < RecoveryPresses
                         THEN Append(pressTimes, now)
                         ELSE Append(Tail(pressTimes), now)
        /\ IF r.arm
           THEN /\ softAP' = TRUE
                /\ TTCcountdown' = force_recover_delay * 2
                /\ TTCwasLightOn' = garage_door.light
                /\ TTC_Action' = "sync_and_restart"
                /\ TTCtimer' = TRUE
           ELSE UNCHANGED <<softAP, ttcVars>>

\* a motion trigger of the comms task: the deadline and the flag
Triggered(gd) == [gd EXCEPT !.motion_timer = now + MotionHold, !.motion = TRUE]

\* enable_service_homekit_motion(reboot), ESP32: the store it leaves and
\* whether it calls sync_and_restart, given the flag it finds
EnableServiceHomekitMotion(hasSensor, store, reboot) ==
    IF ~hasSensor
    THEN [nv |-> NvWrite(store, "has_motion", 1), restart |-> reboot]
    ELSE [nv |-> store, restart |-> FALSE]

\* case PacketCommand::Status
HandleStatus(p) ==
    LET cs == StatusCurrent(p.door, garage_door.current_state)
    IN  /\ garage_door' = StatusUpdate(garage_door, p)
        /\ TTCcountdown' = IF cs = "CURR_CLOSING" /\ TTCcountdown > 0
                           THEN 0 ELSE TTCcountdown
        /\ notes' = StatusNotes(garage_door, p)
        /\ activeNotes' = IF "active" \in StatusNotes(garage_door, p)
                          THEN activeNotes + 1 ELSE activeNotes
        /\ SaveIfNeeded(rolling_code)
        /\ UNCHANGED <<pkt_q, TTCwasLightOn, TTC_Action, TTCtimer, restarting,
                       motionTriggers, push_count, timeout, softAP, pressTimes>>

\* the target a Lock packet asks for
LockTarget(arg, tgt) ==
    CASE arg = "Off" -> "TGT_UNLOCKED"
      [] arg = "On"  -> "TGT_LOCKED"
      [] OTHER       -> IF tgt = "TGT_LOCKED" THEN "TGT_UNLOCKED" ELSE "TGT_LOCKED"

\* case PacketCommand::Lock
HandleLock(p) ==
    LET lock == LockTarget(p.arg, garage_door.target_lock)
        changed == lock # garage_door.target_lock
        gd1 == [garage_door EXCEPT !.target_lock = lock]
        fires == changed /\ "lockKey" \in motionTriggers
    IN  /\ garage_door' = IF fires THEN Triggered(gd1) ELSE gd1
        /\ notes' = (IF changed THEN {"target_lock"} ELSE {})
                    \cup (IF fires THEN {"motion"} ELSE {})
        /\ pkt_q' = SendGetStatus(pkt_q)
        /\ SaveIfNeeded(rolling_code)
        /\ UNCHANGED <<ttcVars, restarting, activeNotes, motionTriggers, push_count,
                       timeout, softAP, pressTimes>>

\* the light a Light packet asks for
LightTarget(arg, light) ==
    CASE arg = "Off" -> FALSE
      [] arg = "On"  -> TRUE
      [] OTHER       -> ~light

\* case PacketCommand::Light
HandleLight(p) ==
    LET l == LightTarget(p.arg, garage_door.light)
        changed == l # garage_door.light
        gd1 == [garage_door EXCEPT !.light = l]
        fires == changed /\ "lightKey" \in motionTriggers
    IN  /\ Recover
        /\ garage_door' = IF fires THEN Triggered(gd1) ELSE gd1
        /\ notes' = (IF changed THEN {"light"} ELSE {})
                    \cup (IF fires THEN {"motion"} ELSE {})
        /\ pkt_q' = SendGetStatus(pkt_q)
        /\ SaveIfNeeded(rolling_code)
        /\ UNCHANGED <<restarting, activeNotes, motionTriggers>>

\* case PacketCommand::Motion
HandleMotion ==
    LET first == ~garage_door.has_motion_sensor
        trig == IF first THEN motionTriggers \cup {"motion"} ELSE motionTriggers
        en == IF first
              THEN EnableServiceHomekitMotion(TRUE, nvRam, trig = {"motion"})
              ELSE [nv |-> nvRam, restart |-> FALSE]
        saved == en.restart \/ NeedSave(rolling_code, last_saved_code)
    IN  /\ garage_door' = [garage_door EXCEPT !.has_motion_sensor = TRUE,
                                              !.motion_timer = now + MotionHold,
                                              !.motion = TRUE]
        /\ motionTriggers' = trig
        /\ nvRam' = IF saved THEN SaveRollingCode(en.nv, rolling_code) ELSE en.nv
        /\ last_saved_code' = IF saved THEN rolling_code ELSE last_saved_code
        /\ restarting' = (restarting \/ en.restart)
        /\ notes' = (IF first THEN {"enable_motion"} ELSE {})
                    \cup (IF ~garage_door.motion THEN {"motion"} ELSE {})
        /\ pkt_q' = SendGetStatus(pkt_q)
        /\ UNCHANGED <<ttcVars, activeNotes, push_count, timeout, softAP, pressTimes>>

\* case PacketCommand::DoorAction
HandleDoorAction(p) ==
    LET fires == p.pressed /\ "doorKey" \in motionTriggers
    IN  /\ IF p.pressed
           THEN Recover
           ELSE UNCHANGED <<ttcVars, push_count, timeout, softAP, pressTimes>>
        /\ garage_door' = IF fires THEN Triggered(garage_door) ELSE garage_door
        /\ notes' = IF fires THEN {"motion"} ELSE {}
        /\ SaveIfNeeded(rolling_code)
        /\ UNCHANGED <<pkt_q, restarting, activeNotes, motionTriggers>>

\* comms_loop_sec2, UART event: one received packet, then the save test
LoopRx ==
    /\ pc = "loop"
    /\ uart_q # <<>>
    /\ LET p == Head(uart_q)
       IN  IF p.cmd = "Status" THEN HandleStatus(p)
           ELSE IF p.cmd = "Lock" THEN HandleLock(p)
           ELSE IF p.cmd = "Light" THEN HandleLight(p)
           ELSE IF p.cmd = "Motion" THEN HandleMotion
           ELSE HandleDoorAction(p)
    /\ uart_q' = Tail(uart_q)
    /\ UNCHANGED <<cfgTTC, pc, id_code, rolling_code, rxPin, txObs, prevMax, bootR,
                   lastRxDoor, boots, ops, opLimit, lastCall, now, obstVars>>
    /\ UNCHANGED <<sec1Vars, uartVars>>

\* the UART driver queues a packet of the motion sensor or the wall console
RxWall(p) ==
    /\ pc # "start"
    /\ ops < opLimit
    /\ ops' = ops + 1
    /\ uart_q' = Append(uart_q, p)
    /\ UNCHANGED <<nvVars, pc, codeVars, pkt_q, garage_door, ttcVars, rxPin, txObs,
                   prevMax, bootR, lastRxDoor, boots, opLimit, restarting, lastCall,
                   rxObs>>

\* a Motion packet arrives
RxMotion == RxWall([cmd |-> "Motion"])

\* the wall console's door button: the press and the release
RxDoorAction == \E b \in BOOLEAN : RxWall([cmd |-> "DoorAction", pressed |-> b])

\* the wall console's door button is pressed
RxPress == RxWall([cmd |-> "DoorAction", pressed |-> TRUE])

\* the wall console's light button
RxLight == RxWall([cmd |-> "Light", arg |-> "Toggle"])

\* the wall console's lock button
RxLock == RxWall([cmd |-> "Lock", arg |-> "Toggle"])

\* millis() advances
Tick ==
    /\ now + TickMs <= MaxNow
    /\ now' = now + TickMs
    /\ UNCHANGED <<nvVars, pc, codeVars, pkt_q, uart_q, garage_door, ttcVars, rxPin,
                   txObs, prevMax, bootR, lastRxDoor, budgetVars, lastCall, notes,
                   activeNotes, motionTriggers, push_count, timeout, softAP, pressTimes,
                   obstVars>>
    /\ UNCHANGED <<sec1Vars, uartVars>>

\* mutant: motion is cleared at the first loop after it was set
MotionExpiredAtOnce(gd, t) == gd.motion

\* the test of the motion clear timer in service_timer_loop
MotionExpired(gd, t) == gd.motion /\ t > gd.motion_timer

\* mutant: three pulses already count as a clear beam
ObstructionTimerFrom3(s, obstructed, pin, t) ==
    IF t - s.last_millis > CHECK_PERIOD
    THEN LET clear == s.low_count >= PULSES_LOWER_LIMIT
             quiet == ~clear /\ s.low_count = 0
             blocked == quiet /\ pin = 1 /\ t - s.last_asleep > AsleepHold
             o == IF clear THEN FALSE ELSE IF blocked THEN TRUE ELSE obstructed
         IN  [low_count |-> 0,
              last_asleep |-> IF quiet /\ pin = 0 THEN t ELSE s.last_asleep,
              last_millis |-> t,
              obstructed |-> o,
              notified |-> o # obstructed]
    ELSE [low_count |-> s.low_count, last_asleep |-> s.last_asleep,
          last_millis |-> s.last_millis, obstructed |-> obstructed, notified |-> FALSE]

\* obstruction_timer() at time t with the pin at level pin: the sensor
\* record, the flag and whether notify_homekit_obstruction is called
ObstructionTimer(s, obstructed, pin, t) ==
    IF t - s.last_millis > CHECK_PERIOD
    THEN LET clear == s.low_count > PULSES_LOWER_LIMIT
             quiet == ~clear /\ s.low_count = 0
             blocked == quiet /\ pin = 1 /\ t - s.last_asleep > AsleepHold
             o == IF clear THEN FALSE ELSE IF blocked THEN TRUE ELSE obstructed
         IN  [low_count |-> 0,
              last_asleep |-> IF quiet /\ pin = 0 THEN t ELSE s.last_asleep,
              last_millis |-> t,
              obstructed |-> o,
              notified |-> o # obstructed]
    ELSE [low_count |-> s.low_count, last_asleep |-> s.last_asleep,
          last_millis |-> s.last_millis, obstructed |-> obstructed, notified |-> FALSE]

\* service_timer_loop(), called from the main loop: the obstruction timer,
\* then the motion clear timer
ServiceTimerLoop ==
    /\ pc # "start"
    /\ LET o == ObstructionTimer([low_count |-> low_count, last_asleep |-> last_asleep,
                                  last_millis |-> last_millis],
                                 garage_door.obstructed, obstPin, now)
           expired == MotionExpired(garage_door, now)
           emitted == (IF o.notified THEN {"obstruction"} ELSE {})
                      \cup (IF expired THEN {"motion"} ELSE {})
       IN  /\ low_count' = o.low_count
           /\ last_asleep' = o.last_asleep
           /\ last_millis' = o.last_millis
           /\ obstNotes' = IF o.notified THEN obstNotes + 1 ELSE obstNotes
           /\ garage_door' = [garage_door EXCEPT
                                 !.obstructed = o.obstructed,
                                 !.motion = IF expired THEN FALSE ELSE @]
           /\ notes' = IF emitted = {} THEN notes ELSE emitted
    /\ UNCHANGED <<nvVars, pc, codeVars, pkt_q, uart_q, ttcVars, rxPin, txObs,
                   prevMax, bootR, lastRxDoor, budgetVars, lastCall, activeNotes,
                   wallVars, obstPin>>
    /\ UNCHANGED <<sec1Vars, uartVars>>

\* isr_obstruction, on the falling edges of the sensor line: n pulses
IsrObstruction ==
    /\ ops < opLimit
    /\ ops' = ops + 1
    /\ \E n \in {1, PULSES_LOWER_LIMIT} :
          /\ low_count + n <= MaxPulses
          /\ low_count' = low_count + n
    /\ UNCHANGED <<nvVars, pc, codeVars, pkt_q, uart_q, garage_door, ttcVars, rxPin,
                   txObs, prevMax, bootR, lastRxDoor, boots, opLimit, restarting,
                   lastCall, notes, activeNotes, wallVars, last_asleep, last_millis,
                   obstPin, obstNotes>>
    /\ UNCHANGED <<sec1Vars, uartVars>>

\* the steady level of the sensor line changes: asleep (0) or awake (1)
ObstPinChange ==
    /\ ops < opLimit
    /\ ops' = ops + 1
    /\ obstPin' = 1 - obstPin
    /\ UNCHANGED <<nvVars, pc, codeVars, pkt_q, uart_q, garage_door, ttcVars, rxPin,
                   txObs, prevMax, bootR, lastRxDoor, boots, opLimit, restarting,
                   lastCall, notes, activeNotes, wallVars, low_count, last_asleep,
                   last_millis, obstNotes>>
    /\ UNCHANGED <<sec1Vars, uartVars>>

\* millis() advances by 1 ms, by the sample period or by the asleep hold
TickObst ==
    /\ ops < opLimit
    /\ ops' = ops + 1
    /\ \E d \in {1, CHECK_PERIOD, AsleepHold} : now' = now + d
    /\ UNCHANGED <<nvVars, pc, codeVars, pkt_q, uart_q, garage_door, ttcVars, rxPin,
                   txObs, prevMax, bootR, lastRxDoor, boots, opLimit, restarting,
                   lastCall, notes, activeNotes, motionTriggers, push_count, timeout,
                   softAP, pressTimes, obstVars>>
    /\ UNCHANGED <<sec1Vars, uartVars>>

(********************** Security+ 1.0 door status **************************)
\* the value bytes of 0x38 messages explored: the six known door values with
\* upper nibble 5, an open with upper nibble 0, the unknown value 3 and a
\* byte with an upper nibble that is rejected
Sec1Vals == {80, 81, 82, 83, 84, 85, 86, 2, 162}

\* the trap of invalid values: the upper nibble is 0x0, 0x5 or 0xB
Sec1Valid(val) == (val \div 16) \in {0, 5, 11}

\* the switch on val & 0x7
Sec1DoorState(v) ==
    CASE v = 0 -> "Stopped"
      [] v = 1 -> "Opening"
      [] v = 2 -> "Open"
      [] v = 4 -> "Closing"
      [] v = 5 -> "Closed"
      [] v = 6 -> "Stopped"
      [] OTHER -> "Unknown"

\* the test of two sequential matching door states against the static prevDoor
Sec1Matches(v, prev) == prev = v

\* case secplus1Codes::DoorStatus of comms_loop_sec1, for the value byte val
Sec1DoorStatus ==
    /\ ops < opLimit
    /\ ops' = ops + 1
    /\ \E val \in Sec1Vals :
        LET v == val % 8
            door == Sec1DoorState(v)
            cs == StatusCurrent(door, garage_door.current_state)
            ts0 == StatusTarget(door, garage_door.target_state)
            ts == IF ~garage_door.active THEN ActivationTarget(cs) ELSE ts0
            cancel == cs = "CURR_CLOSING" /\ TTCcountdown > 0
            emitted == (IF ~garage_door.active THEN {"active"} ELSE {})
                       \cup (IF cs # gd_currentstate THEN {"current_door"} ELSE {})
                       \cup (IF ts # gd_TargetState THEN {"target_door"} ELSE {})
        IN  IF ~Sec1Valid(val)
            THEN UNCHANGED <<garage_door, TTCcountdown, TTCtimer, notes, activeNotes,
                             sec1Vars>>
            ELSE /\ lastObs' = v
                 /\ IF ~Sec1Matches(v, prevDoor)
                    THEN /\ prevDoor' = v
                         /\ UNCHANGED <<garage_door, TTCcountdown, TTCtimer, notes,
                                        activeNotes, gd_currentstate, gd_TargetState>>
                    ELSE /\ garage_door' = [garage_door EXCEPT !.current_state = cs,
                                                               !.target_state = ts,
                                                               !.active = TRUE]
                         /\ TTCcountdown' = IF cancel THEN 0 ELSE TTCcountdown
                         /\ TTCtimer' = IF cancel THEN FALSE ELSE TTCtimer
                         /\ notes' = emitted
                         /\ activeNotes' = IF garage_door.active THEN activeNotes
                                           ELSE activeNotes + 1
                         /\ gd_currentstate' = cs
                         /\ gd_TargetState' = ts
                         /\ UNCHANGED prevDoor
    /\ UNCHANGED <<nvVars, pc, codeVars, pkt_q, uart_q, TTCwasLightOn, TTC_Action,
                   rxPin, txObs, prevMax, bootR, lastRxDoor, boots, opLimit,
                   restarting, lastCall, wallVars, obstVars, uartVars>>

(******************* Security+ 1.0: queue and comms loop *******************)
\* comms_task_entry with Security+ 1.0 configured: no codes are read, the
\* packet queue is created and comms_loop(1) is entered
StartupSec1 ==
    /\ pc = "start"
    /\ pc' = "loop1"
    /\ pkt_q' = <<>>
    /\ UNCHANGED <<nvVars, codeVars, uart_q, garage_door, ttcVars, rxPin, txObs, prevMax,
                   bootR, lastRxDoor, budgetVars, lastCall, rxObs>>

\* door_command(action) with Security+ 1.0 configured: press, two releases,
\* and a send_get_status that enqueues nothing
DoorCommandSec1(q, action) ==
    LET press == PacketAction(Packet("DoorAction", action, TRUE), FALSE, DoorPressDelay)
        release == PacketAction(Packet("DoorAction", action, FALSE), TRUE, DoorReleaseDelay)
    IN  SendGetStatusFor(1,
            QueueSendToBack(QueueSendToBack(QueueSendToBack(q, press), release), release))

\* close_door() with Security+ 1.0 configured and no time-to-close delay
CloseDoorSec1 ==
    /\ pc = "loop1"
    /\ cfgTTC = 0
    /\ garage_door.current_state # "CURR_CLOSED"
    /\ ops < opLimit
    /\ ops' = ops + 1
    /\ pkt_q' = DoorCommandSec1(pkt_q, IF garage_door.current_state = "CURR_OPENING"
                                       THEN "Stop" ELSE "Close")
    /\ UNCHANGED <<nvVars, pc, codeVars, uart_q, garage_door, ttcVars, rxPin, txObs,
                   prevMax, bootR, lastRxDoor, boots, opLimit, restarting, lastCall,
                   rxObs>>

\* set_lock(value) with Security+ 1.0 configured: the press and two releases
\* of the lock button
SetLockSec1 ==
    /\ pc = "loop1"
    /\ ops < opLimit
    /\ ops' = ops + 1
    /\ \E value \in BOOLEAN :
        LET tgt == IF value THEN "TGT_LOCKED" ELSE "TGT_UNLOCKED"
            arg == IF value THEN "On" ELSE "Off"
            already == \/ value /\ garage_door.current_lock = "CURR_LOCKED"
                       \/ ~value /\ garage_door.current_lock = "CURR_UNLOCKED"
            press == PacketAction(Packet("Lock", arg, TRUE), TRUE, LockPressDelay)
            release == PacketAction(Packet("Lock", arg, FALSE), TRUE, DoorReleaseDelay)
        IN  /\ garage_door' = [garage_door EXCEPT !.target_lock = tgt]
            /\ pkt_q' = IF already
                        THEN pkt_q
                        ELSE QueueSendToBack(QueueSendToBack(QueueSendToBack(pkt_q,
                                 press), release), release)
    /\ UNCHANGED <<nvVars, pc, codeVars, uart_q, ttcVars, rxPin, txObs,
                   prevMax, bootR, lastRxDoor, boots, opLimit, restarting, lastCall,
                   rxObs>>

\* one iteration of comms_loop(secType): the Security+ 1.0 branch is empty,
\* the other runs comms_loop_sec2
CommsLoop(secType) == IF secType = 1 THEN FALSE ELSE (LoopTx \/ LoopRx)

(***************************** SoftUart receive ****************************)
\* SoftUart::initialize: microseconds per bit, rounded to the nearest
BitTimeOf(speed) ==
    LET b == 1000000 \div speed
    IN  IF (100000000 \div speed) - 100 * b > 50 THEN b + 1 ELSE b

bit_time_us == BitTimeOf(Speed)

\* rx_isr_handler_entry: the wait for an ISREvent, in microseconds
ByteTimeoutUs(speed) == ((10000 \div speed) + 1) * 1000

\* process_isr: the bit periods since the last event, rounded to the nearest
BitsOf(ticks) ==
    (ticks \div bit_time_us)
      + (IF (ticks % bit_time_us) > (bit_time_us \div 2) THEN 1 ELSE 0)

\* the receiver's fields as one record
UartState ==
    [rx_state |-> rx_state, rx_bit_count |-> rx_bit_count, rx_byte |-> rx_byte,
     rx_q |-> rx_q]

\* the Stop state keeps the byte when the bit period was logic high
StopKeeps(level) == (level # invert)

\* process_isr, the loop over the bit periods: last is last_isr_level and
\* level the level of the event
RECURSIVE ProcessBits(_, _, _, _)
ProcessBits(u, bits, last, level) ==
    IF bits = 0 THEN u
    ELSE IF u.rx_state = "Idle"
    THEN IF level = last
         THEN u
         ELSE IF (level # invert) = FALSE /\ bits = 1
         THEN ProcessBits([u EXCEPT !.rx_state = "Start", !.rx_bit_count = 0],
                          bits - 1, last, level)
         ELSE ProcessBits(u, bits - 1, last, level)
    ELSE IF u.rx_state = "Start"
    THEN IF last # invert
         THEN ProcessBits([u EXCEPT !.rx_state = "Idle", !.rx_bit_count = 0],
                          bits - 1, last, level)
         ELSE ProcessBits([u EXCEPT !.rx_state = "Data"], bits - 1, last, level)
    ELSE IF u.rx_state = "Data"
    THEN LET byte == (u.rx_byte \div 2) + (IF last # invert THEN 128 ELSE 0)
             count == (u.rx_bit_count + 1) % Uint8Modulus
         IN  ProcessBits([u EXCEPT !.rx_byte = byte, !.rx_bit_count = count,
                                   !.rx_state = IF count = 8 THEN "Stop" ELSE "Data"],
                         bits - 1, last, level)
    ELSE LET kept == IF StopKeeps(last)
                     THEN [u EXCEPT !.rx_q = Append(u.rx_q, u.rx_byte),
                                    !.rx_byte = 0, !.rx_bit_count = 0]
                     ELSE u
         IN  ProcessBits([kept EXCEPT !.rx_state = IF bits = 1 THEN "Start" ELSE "Idle"],
                         bits - 1, last, level)

\* SoftUart::process_isr(e); the times of the lines checked stay far below
\* 2^32 microseconds, where the 32-bit last_isr_ticks holds e.ticks unchanged
ProcessIsr(e) ==
    LET ticks == e.ticks - last_isr_ticks
        u == ProcessBits(UartState, BitsOf(ticks), last_isr_level, e.level)
    IN  /\ rx_state' = u.rx_state
        /\ rx_bit_count' = u.rx_bit_count
        /\ rx_byte' = u.rx_byte
        /\ rx_q' = u.rx_q
        /\ last_isr_ticks' = e.ticks
        /\ last_isr_level' = e.level

\* everything but the receiver
notUart ==
    <<nvVars, pc, codeVars, pkt_q, uart_q, garage_door, ttcVars, rxPin, txObs, prevMax,
      bootR, lastRxDoor, budgetVars, lastCall, notes, activeNotes, wallVars, obstVars,
      sec1Vars>>

\* rx_isr_handler_entry: an edge arrives on rx_isr_q before the wait times
\* out (a wait that times out in the Idle state changes nothing and starts
\* the next wait)
UartEdge ==
    /\ edges # <<>>
    /\ IF rx_state = "Idle"
       THEN TRUE
       ELSE Head(edges).ticks - last_isr_ticks <= ByteTimeoutUs(Speed)
    /\ ProcessIsr(Head(edges))
    /\ edges' = Tail(edges)
    /\ UNCHANGED <<invert, sentByte, notUart>>

\* rx_isr_handler_entry: the wait times out with the state machine not Idle;
\* the event carries the level of the pin, that of the last edge
UartTimeout ==
    /\ rx_state # "Idle"
    /\ IF edges = <<>>
       THEN TRUE
       ELSE Head(edges).ticks - last_isr_ticks > ByteTimeoutUs(Speed)
    /\ ProcessIsr([ticks |-> last_isr_ticks + ByteTimeoutUs(Speed),
                   level |-> last_isr_level])
    /\ UNCHANGED <<invert, sentByte, edges, notUart>>

\* the eight data bits of a byte as logic levels, least significant first
ByteBits(b) == [i \in 1..8 |-> (b \div (2 ^ (i - 1))) % 2 = 1]

\* n bit periods at one logic level
Steady(n, level) == [i \in 1..n |-> level]

\* the logic levels of the line, one per bit period: idle, a frame of byte bad
\* whose stop bit is low with the line low for s periods in all, k idle
\* periods, a well-formed frame of byte good; the line idles from there on
LineLevels(bad, s, k, good) ==
    Steady(LeadBits, TRUE) \o <<FALSE>> \o ByteBits(bad) \o Steady(s, FALSE)
      \o Steady(k, TRUE) \o <<FALSE>> \o ByteBits(good) \o <<TRUE>>

\* handle_rx_edge: one ISREvent per level change, with the time of the change
\* and the level of the pin after it
EdgesOf(w, inv) ==
    LET idx == [i \in 1..(Len(w) - 1) |-> i + 1]
        IsEdge(i) == w[i] # w[i - 1]
        at == SelectSeq(idx, IsEdge)
    IN  [j \in 1..Len(at) |-> [ticks |-> (at[j] - 1) * bit_time_us,
                               level |-> (w[at[j]] # inv)]]

\* the bytes put on the line
UartBytes == {0, 1, 85, 128, 170, 255}

\* the idle bit periods between the frame in error and the well-formed one
GapChoices == (1..MaxGap) \cup {LongGap}

(************************* reset and restart *******************************)
\* reset_door(), called from the web task
ResetDoor ==
    /\ pc = "loop"
    /\ ops < opLimit
    /\ ops' = ops + 1
    /\ rolling_code' = 0
    /\ nvRam' = NvErase(NvErase(NvErase(nvRam, "rolling"), "id_code"), "has_motion")
    /\ lastIncCounter' = NoCounter
    /\ UNCHANGED <<cfgTTC, pc, id_code, last_saved_code, pkt_q, uart_q, garage_door,
                   ttcVars, rxPin, txCount, lastTx, sentMax, sinceTx, prevMax, bootR,
                   lastRxDoor, boots, opLimit, restarting>>
    /\ UNCHANGED lastCall
    /\ UNCHANGED rxObs

\* what a restart does to RAM: globals are zero again, NVRAM is kept
RamAfterRestart ==
    /\ pc' = "start"
    /\ id_code' = 0
    /\ rolling_code' = 0
    /\ last_saved_code' = 0
    /\ pkt_q' = <<>>
    /\ uart_q' = <<>>
    /\ garage_door' = GarageDoorZero
    /\ TTCcountdown' = 0
    /\ TTCwasLightOn' = FALSE
    /\ TTC_Action' = "NULL"
    /\ TTCtimer' = FALSE
    /\ txCount' = 0
    /\ lastTx' = NoTx
    /\ lastIncCounter' = NoCounter
    /\ sinceTx' = DoorPressDelay
    /\ prevMax' = sentMax
    /\ bootR' = 0
    /\ lastRxDoor' = "None"
    /\ boots' = boots + 1
    /\ restarting' = FALSE
    /\ UNCHANGED <<cfgTTC, rxPin, sentMax, ops, opLimit>>
    /\ UNCHANGED lastCall
    /\ notes' = {}
    /\ activeNotes' = 0
    /\ now' = 0
    /\ push_count' = 0
    /\ timeout' = 0
    /\ pressTimes' = <<>>
    /\ low_count' = 0
    /\ last_asleep' = 0
    /\ last_millis' = 0
    /\ obstNotes' = 0
    /\ prevDoor' = 0
    /\ gd_currentstate' = "CURR_OPEN"
    /\ gd_TargetState' = "TGT_OPEN"
    /\ lastObs' = NoObs
    /\ rx_state' = "Idle"
    /\ rx_bit_count' = 0
    /\ rx_byte' = 0
    /\ last_isr_ticks' = 0
    /\ last_isr_level' = TRUE
    /\ rx_q' = <<>>
    /\ UNCHANGED <<motionTriggers, softAP, obstPin, invert, edges, sentByte>>

\* sync_and_restart() outside soft-AP mode, first part: save_rolling_code in
\* the calling task; saveMessageLog and esp_restart follow while the comms
\* task keeps running
SyncAndRestart ==
    /\ pc # "start"
    /\ boots < MaxBoots
    /\ ~restarting
    /\ nvRam' = SaveRollingCode(nvRam, rolling_code)
    /\ last_saved_code' = rolling_code
    /\ restarting' = TRUE
    /\ UNCHANGED <<cfgTTC, pc, id_code, rolling_code, pkt_q, uart_q, garage_door,
                   ttcVars, rxPin, txObs, prevMax, bootR, lastRxDoor, boots, ops, opLimit>>
    /\ UNCHANGED lastCall
    /\ UNCHANGED rxObs

\* sync_and_restart(), last part: esp_restart
EspRestart ==
    /\ restarting
    /\ UNCHANGED nvRam
    /\ RamAfterRestart

\* power loss or crash: a restart without the save
PowerLoss ==
    /\ pc # "start"
    /\ boots < MaxBoots
    /\ ~restarting
    /\ UNCHANGED nvRam
    /\ RamAfterRestart

\* another station asserts or releases the bus
RxPinChange ==
    /\ rxPin' = 1 - rxPin
    /\ UNCHANGED <<nvVars, pc, codeVars, pkt_q, uart_q, garage_door, ttcVars, txObs,
                   prevMax, bootR, lastRxDoor, budgetVars>>
    /\ UNCHANGED lastCall
    /\ UNCHANGED rxObs

\* time passes on the bus: 40 ms, then 250 ms, since the last transmit
TimePasses ==
    /\ sinceTx < DoorPressDelay
    /\ sinceTx' = IF sinceTx < DoorReleaseDelay THEN DoorReleaseDelay ELSE DoorPressDelay
    /\ UNCHANGED <<nvVars, pc, codeVars, pkt_q, uart_q, garage_door, ttcVars, rxPin,
                   txCount, lastTx, lastIncCounter, sentMax, prevMax, bootR, lastRxDoor,
                   budgetVars>>
    /\ UNCHANGED lastCall
    /\ UNCHANGED rxObs

(***************************** specifications ******************************)
InitRam ==
    /\ \E r \in NvRollingChoices :
          nvRam = [rolling |-> r,
                   id_code |-> IF r = Absent THEN Absent ELSE IdDrawMin * IdShift + IdLow,
                   has_motion |-> Absent]
    /\ cfgTTC \in TTCChoices
    /\ pc = "start"
    /\ id_code = 0
    /\ rolling_code = 0
    /\ last_saved_code = 0
    /\ pkt_q = <<>>
    /\ uart_q = <<>>
    /\ garage_door = GarageDoorZero
    /\ TTCcountdown = 0
    /\ TTCwasLightOn = FALSE
    /\ TTC_Action = "NULL"
    /\ TTCtimer = FALSE
    /\ rxPin = 0
    /\ txCount = 0
    /\ lastTx = NoTx
    /\ lastIncCounter = NoCounter
    /\ sentMax = NoCounter
    /\ sinceTx = DoorPressDelay
    /\ notes = {}
    /\ activeNotes = 0
    /\ now = 0
    /\ motionTriggers \in TriggerChoices
    /\ push_count = 0
    /\ timeout = 0
    /\ softAP = FALSE
    /\ pressTimes = <<>>
    /\ low_count = 0
    /\ last_asleep = 0
    /\ last_millis = 0
    /\ obstPin \in {0, 1}
    /\ obstNotes = 0
    /\ prevDoor = 0
    /\ gd_currentstate = "CURR_OPEN"
    /\ gd_TargetState = "TGT_OPEN"
    /\ lastObs = NoObs
    /\ rx_state = "Idle"
    /\ rx_bit_count = 0
    /\ rx_byte = 0
    /\ last_isr_ticks = 0
    /\ last_isr_level = TRUE
    /\ rx_q = <<>>
    /\ prevMax = NoCounter
    /\ bootR = 0
    /\ lastRxDoor = "None"
    /\ boots = 0
    /\ restarting = FALSE
    /\ ops = 0
    /\ opLimit \in {MaxRollOps, MaxOps, MaxCallOps, MaxMotionOps, MaxPresses, MaxObstOps,
                  MaxSec1Ops, MaxWallOps}
    /\ lastCall \in {CallsOff, NoCall}

\* the comms task and its callers, with nothing on the SoftUart line
Init == InitRam /\ invert = FALSE /\ edges = <<>> /\ sentByte = NoByte

\* the rolling-code keeper and the bus: startup, sync, transmits, saves, reset,
\* reboots, and another station asserting the receive line
InitRoll == Init /\ obstPin = 0 /\ motionTriggers = {} /\ cfgTTC = 0 /\ opLimit = MaxRollOps /\ lastCall = CallsOff

NextRoll ==
    \/ Startup
    \/ SyncGetOpenings
    \/ SyncGetStatus
    \/ LoopTx
    \/ CloseDoor
    \/ ResetDoor
    \/ SyncAndRestart
    \/ EspRestart
    \/ PowerLoss
    \/ RxPinChange

SpecRoll == InitRoll /\ [][NextRoll]_vars


\* the door state machine, the packet queue and the bus: one boot
InitDoor == Init /\ obstPin = 0 /\ motionTriggers = {} /\ nvRam["rolling"] = 57 /\ opLimit = MaxOps /\ lastCall = CallsOff

Next ==
    \/ Startup
    \/ SyncGetOpenings
    \/ SyncGetStatus
    \/ LoopTx
    \/ LoopRx
    \/ RxStatus
    \/ SetLight
    \/ SetLock
    \/ OpenDoor
    \/ CloseDoor
    \/ TTCdelayLoop

Spec == InitDoor /\ [][Next]_vars

\* the pacing of the bus: one boot, door commands, transmits and the passing
\* of time between them
InitDelay ==
    Init /\ obstPin = 0 /\ motionTriggers = {} /\ cfgTTC = 0 /\ nvRam["rolling"] = 57 /\ opLimit = MaxOps /\ lastCall = CallsOff

NextDelay ==
    \/ Startup
    \/ SyncGetOpenings
    \/ SyncGetStatus
    \/ LoopTx
    \/ CloseDoor
    \/ SetLight
    \/ TimePasses

SpecDelay == InitDelay /\ [][NextDelay]_vars

\* the control surface with every call observed, also the calls that find
\* the requested state already there
InitCalls ==
    Init /\ obstPin = 0 /\ motionTriggers = {} /\ nvRam["rolling"] = 57 /\ cfgTTC \in {0, 1} /\ opLimit = MaxCallOps
         /\ lastCall = NoCall

SpecCalls == InitCalls /\ [][Next]_vars

\* the motion sensor and the wall console's keys as motion triggers, with
\* the clock: one boot
InitMotion ==
    Init /\ obstPin = 0 /\ nvRam["rolling"] = 57 /\ cfgTTC = 0 /\ opLimit = MaxMotionOps
         /\ lastCall = CallsOff

NextMotion ==
    \/ Startup
    \/ SyncGetOpenings
    \/ SyncGetStatus
    \/ LoopTx
    \/ LoopRx
    \/ RxMotion
    \/ RxDoorAction
    \/ RxLight
    \/ RxLock
    \/ Tick
    \/ ServiceTimerLoop

SpecMotion == InitMotion /\ [][NextMotion]_vars

\* the same with a clock that keeps advancing and a main loop that keeps
\* calling service_timer_loop
SpecMotionFair ==
    SpecMotion /\ WF_vars(Tick) /\ WF_vars(ServiceTimerLoop)

\* presses of the wall console's door button, the clock and the 500 ms timer
InitRecovery ==
    Init /\ obstPin = 0 /\ motionTriggers = {} /\ nvRam["rolling"] = 57 /\ cfgTTC = 0
         /\ opLimit = MaxPresses /\ lastCall = CallsOff

NextRecovery ==
    \/ Startup
    \/ SyncGetOpenings
    \/ SyncGetStatus
    \/ LoopTx
    \/ LoopRx
    \/ RxPress
    \/ Tick
    \/ TTCdelayLoop

SpecRecovery == InitRecovery /\ [][NextRecovery]_vars

\* the obstruction sensor: pulses, the level of the line, the clock and
\* the samples taken by the main loop
InitObst ==
    Init /\ motionTriggers = {} /\ nvRam["rolling"] = 57 /\ cfgTTC = 0
         /\ opLimit = MaxObstOps /\ lastCall = CallsOff

NextObst ==
    \/ Startup
    \/ IsrObstruction
    \/ ObstPinChange
    \/ TickObst
    \/ ServiceTimerLoop

SpecObst == InitObst /\ [][NextObst]_vars

\* Security+ 1.0: the door status values the opener reports, one after the
\* other, from boot
InitSec1 ==
    Init /\ obstPin = 0 /\ motionTriggers = {} /\ nvRam["rolling"] = 57 /\ cfgTTC = 0
         /\ opLimit = MaxSec1Ops /\ lastCall = CallsOff

NextSec1 == Sec1DoorStatus

SpecSec1 == InitSec1 /\ [][NextSec1]_vars

\* Security+ 1.0 as built: the control surface fills the packet queue and
\* the comms task runs comms_loop(1)
NextSec1Queue ==
    \/ StartupSec1
    \/ CloseDoorSec1
    \/ SetLockSec1

\* either security type as configured at boot, with the comms task
\* scheduled fairly
InitQueue ==
    Init /\ obstPin = 0 /\ motionTriggers = {} /\ nvRam["rolling"] = 57 /\ cfgTTC \in {0, 1}
         /\ opLimit = MaxCallOps /\ lastCall = CallsOff

NextQueue ==
    \/ pc # "loop1" /\ Next
    \/ NextSec1Queue

SpecQueueFair ==
    /\ InitQueue
    /\ [][NextQueue]_vars
    /\ WF_vars(CommsLoop(1))
    /\ WF_vars(pc = "loop" /\ CommsLoop(2))

\* time-to-close delay configured, wall-button presses and close_door()
\* sharing TTCtimer, TTCcountdown and TTC_Action
InitShared ==
    Init /\ obstPin = 0 /\ motionTriggers = {} /\ nvRam["rolling"] = 57 /\ cfgTTC = 1
         /\ opLimit = MaxPresses /\ lastCall = CallsOff

NextShared ==
    \/ NextRecovery
    \/ CloseDoor

SpecShared == InitShared /\ [][NextShared]_vars

\* frames of the opener and the wall console arriving and close_door() called
\* from the control surface; the comms task is scheduled fairly
InitWall ==
    Init /\ obstPin = 0 /\ motionTriggers = {} /\ nvRam["rolling"] = 57 /\ cfgTTC = 0
         /\ opLimit = MaxWallOps /\ lastCall = CallsOff

CommsTask ==
    \/ Startup
    \/ SyncGetOpenings
    \/ SyncGetStatus
    \/ LoopTx
    \/ LoopRx

NextWall ==
    \/ CommsTask
    \/ CloseDoor
    \/ RxStatus
    \/ RxMotion
    \/ RxLight
    \/ RxLock

SpecWallFair == InitWall /\ [][NextWall]_vars /\ WF_vars(CommsTask)

\* the receiver of SoftUart alone: a frame whose stop bit is low, then a
\* well-formed frame
InitUart ==
    /\ InitRam /\ obstPin = 0 /\ motionTriggers = {} /\ nvRam["rolling"] = 57 /\ cfgTTC = 0
    /\ opLimit = MaxOps /\ lastCall = CallsOff
    /\ invert = FALSE
    /\ \E bad \in UartBytes, s \in 1..MaxStopLow, k \in GapChoices, good \in UartBytes :
          /\ edges = EdgesOf(LineLevels(bad, s, k, good), invert)
          /\ sentByte = good

NextUart ==
    \/ UartEdge
    \/ UartTimeout

SpecUart == InitUart /\ [][NextUart]_vars

(******************************* claims ************************************)
\* C1: after startup the rolling value held by the comms task is strictly
\* greater than the counter of every frame written before the last reboot,
\* also when the stored value is 0 or absent.
C1_ReplaySafeAcrossReboots ==
    pc # "start" => rolling_code > prevMax

\* C2: between loop iterations, and after startup and the sync transmits,
\* last_saved_code <= rolling_code <= last_saved_code + 10.
C2_RollingWithinSavedWindow ==
    pc # "start" =>
        /\ last_saved_code <= rolling_code
        /\ rolling_code <= last_saved_code + MAX_CODES_WITHOUT_FLASH_WRITE

\* C3: with a stored rolling value R > 0 the startup leaves rolling >= R + 10
\* saved in NVRAM before any transmit, and the first frame written carries
\* exactly the saved value and leaves rolling one above it; with a stored
\* value of 0 or none rolling stays 0.
C3_WarmBootFirstFrame ==
    /\ pc = "sync1" =>
          /\ txCount = 0
          /\ nvRam["rolling"] = rolling_code
          /\ IF bootR > 0
             THEN rolling_code >= bootR + MAX_CODES_WITHOUT_FLASH_WRITE
             ELSE rolling_code = 0
    /\ (pc = "sync2" /\ bootR > 0) =>
          /\ lastTx.wrote
          /\ lastTx.counter = last_saved_code
          /\ rolling_code = last_saved_code + 1

\* C4: rolling_code is a 28-bit value in every reachable state.
C4_RollingBelow28Bits ==
    rolling_code < RollingModulus

\* C5: every transmitSec2 call encodes with the value rolling_code holds
\* before the call and leaves rolling_code = (old + 1) mod 2^28 when the
\* action's inc_counter is set and unchanged otherwise; the action is the one
\* at the head of the queue; frames written with inc_counter carry
\* consecutive counters modulo 2^28.
C5_TransmitStepsCounter ==
    [][txCount' = txCount + 1 =>
          /\ lastTx'.wrote => lastTx'.counter = rolling_code
          /\ rolling_code' = IF lastTx'.inc_counter
                             THEN (rolling_code + 1) % RollingModulus
                             ELSE rolling_code
          /\ pc = "loop" => /\ lastTx'.pkt = Head(pkt_q).pkt
                            /\ lastTx'.inc_counter = Head(pkt_q).inc_counter
          /\ (lastTx'.wrote /\ lastTx'.inc_counter /\ lastIncCounter # NoCounter) =>
                lastTx'.counter = (lastIncCounter + 1) % RollingModulus
      ]_vars

\* C5 witness: a frame was written with the last 28-bit counter value and the
\* counter wrapped to 0
C5_Witness ==
    /\ lastTx.wrote
    /\ lastTx.inc_counter
    /\ lastTx.counter = RollingModulus - 1
    /\ rolling_code = 0

\* C6: once a Status packet has been processed, target_state goes with
\* current_state: Opening or Open with target Open, Closing or Closed with
\* target Closed, Stopped with target Open; also after the first Status
\* packet, the one that activates the door.
C6_TargetMatchesCurrent ==
    garage_door.active =>
        <<garage_door.current_state, garage_door.target_state>> \in
            {<<"CURR_OPENING", "TGT_OPEN">>, <<"CURR_OPEN", "TGT_OPEN">>,
             <<"CURR_CLOSING", "TGT_CLOSED">>, <<"CURR_CLOSED", "TGT_CLOSED">>,
             <<"CURR_STOPPED", "TGT_OPEN">>}

\* C7: once the comms task has processed every received packet,
\* current_state is the door value of the most recently received Status
\* packet with a known door state, whatever control-surface calls came in
\* between; and current_state changes only in the step that processes a
\* received packet.
C7_CurrentFollowsStatus ==
    /\ []((uart_q = <<>> /\ lastRxDoor # "None") =>
            <<lastRxDoor, garage_door.current_state>> \in
                {<<"Open", "CURR_OPEN">>, <<"Closed", "CURR_CLOSED">>,
                 <<"Stopped", "CURR_STOPPED">>, <<"Opening", "CURR_OPENING">>,
                 <<"Closing", "CURR_CLOSING">>})
    /\ [][garage_door'.current_state # garage_door.current_state =>
            (pc = "loop" /\ uart_q # <<>> /\ uart_q' = Tail(uart_q))]_vars

\* C7 witness: while the door was moving the control surface queued a Stop
\* whose press is already on the bus, and a later Status reported Stopped
C7_Witness ==
    /\ uart_q = <<>>
    /\ lastRxDoor = "Stopped"
    /\ garage_door.current_state = "CURR_STOPPED"
    /\ lastTx.pkt = Packet("DoorAction", "Stop", TRUE)

\* C8: a door action is in the queue only as an adjacent pair, the press
\* {pressed, no increment, 250 ms} immediately followed by its release
\* {not pressed, increment, 40 ms}; a release at the head of the queue follows
\* its press on the bus, and a press on the bus has its release next in the
\* queue.
C8_DoorPairsIntact ==
    /\ \A i \in 1..Len(pkt_q) :
          LET a == pkt_q[i]
          IN  a.pkt.cmd = "DoorAction" =>
                IF a.pkt.pressed
                THEN /\ ~a.inc_counter
                     /\ a.delay = DoorPressDelay
                     /\ i < Len(pkt_q)
                     /\ pkt_q[i + 1] = PacketAction(Packet("DoorAction", a.pkt.arg, FALSE),
                                                    TRUE, DoorReleaseDelay)
                ELSE /\ a.inc_counter
                     /\ a.delay = DoorReleaseDelay
                     /\ IF i > 1
                        THEN pkt_q[i - 1].pkt = Packet("DoorAction", a.pkt.arg, TRUE)
                        ELSE lastTx.pkt = Packet("DoorAction", a.pkt.arg, TRUE)
    /\ (lastTx.pkt.cmd = "DoorAction" /\ lastTx.pkt.pressed) =>
          /\ pkt_q # <<>>
          /\ Head(pkt_q).pkt = Packet("DoorAction", lastTx.pkt.arg, FALSE)

\* C9: a transmit attempted while another station asserts the bus ends in a
\* collision: nothing is written, the action is back at the front of the
\* queue and rolling_code is not incremented.
C9_CollisionRequeuesAtFront ==
    [][(pc = "loop" /\ txCount' = txCount + 1 /\ rxPin = 1) =>
          /\ ~lastTx'.wrote
          /\ pkt_q' = pkt_q
          /\ rolling_code' = rolling_code
      ]_vars

\* C10: frame bytes are written only when the receive line is idle at the
\* transmit.
C10_WriteOnlyWhenBusIdle ==
    [][(txCount' = txCount + 1 /\ lastTx'.wrote) => rxPin = 0]_vars

\* C11: when the encoding of an action fails nothing is written to the bus,
\* the action is dropped from the queue (not retried), and rolling_code is left
\* unchanged even when the action's inc_counter flag is set.
C11_EncodeFailureLeavesCounter ==
    [][(txCount' = txCount + 1 /\ ~EncodeOk(rolling_code)) =>
          /\ ~lastTx'.wrote
          /\ pc = "loop" => pkt_q' = Tail(pkt_q)
          /\ rolling_code' = rolling_code
      ]_vars

\* C12: open_door() called while a time-to-close countdown is running cancels
\* it: in the step in which open_door queues its Open door action the timer is
\* stopped and the countdown is 0, so that no Close comes from that countdown.
C12_OpenCancelsCountdown ==
    [][(/\ TTCcountdown > 0
        /\ Len(pkt_q') > Len(pkt_q)
        /\ \E i \in (Len(pkt_q) + 1)..Len(pkt_q') :
               pkt_q'[i].pkt = Packet("DoorAction", "Open", TRUE)) =>
          /\ ~TTCtimer'
          /\ TTCcountdown' = 0
      ]_vars

\* C13: when a Status packet reporting Closing is processed while the
\* time-to-close countdown is running the countdown is cancelled: the step sets
\* it to 0, and from then on no timer tick acts on it (a tick on a countdown of
\* 0 would wrap it to 255, toggle the light and later invoke the close action).
C13_ClosingStatusCancelsCountdown ==
    [][/\ (/\ pc = "loop" /\ uart_q # <<>> /\ uart_q' = Tail(uart_q)
            /\ Head(uart_q).door = "Closing" /\ TTCcountdown > 0) =>
               TTCcountdown' = 0
       /\ ~(/\ TTCtimer
             /\ TTCcountdown = 0
             /\ TTCcountdown' = Uint8Modulus - 1)
      ]_vars

\* door-action presses for Close in a queue
ClosePresses(q) ==
    Cardinality({i \in 1..Len(q) : q[i].pkt = Packet("DoorAction", "Close", TRUE)})

\* C14: a close_door() while the countdown is running cancels the timer and
\* closes immediately, whatever a tick already due does: the step that queues
\* the Close (with room in the queue for it) ends with the countdown at 0, the
\* timer stopped and exactly one Close press added.
C14_SecondCloseCancelsAndCloses ==
    [][(/\ cfgTTC > 0
        /\ TTCcountdown > 0
        /\ TTCtimer
        /\ Len(pkt_q) = 0
        /\ ClosePresses(pkt_q') > ClosePresses(pkt_q)) =>
          /\ TTCcountdown' = 0
          /\ ~TTCtimer'
          /\ ClosePresses(pkt_q') = ClosePresses(pkt_q) + 1
      ]_vars

\* C15: a close_door() that starts a countdown sets it to 2 * T for the
\* configured delay T; every tick takes one off; the tick that brings it to 0,
\* and no earlier one, stops the timer and queues the Close.
C15_CountdownIsTwiceDelay ==
    [][/\ (~TTCtimer /\ TTCtimer') => TTCcountdown' = 2 * cfgTTC
       /\ (TTCtimer /\ TTCcountdown > 0 /\ TTCcountdown' = TTCcountdown - 1) =>
             /\ TTCtimer' = (TTCcountdown' > 0)
             /\ TTCcountdown' > 0 => ClosePresses(pkt_q') = ClosePresses(pkt_q)
             /\ (TTCcountdown' = 0 /\ Len(pkt_q) < PktQueueLen) =>
                   ClosePresses(pkt_q') = ClosePresses(pkt_q) + 1
      ]_vars

\* C16: after a transmit the comms loop transmits the next action no earlier
\* than the post-delay of the one just sent: 250 ms after a door press, 40 ms
\* after its release.
C16_PostDelayHonoured ==
    [][(pc = "loop" /\ txCount' = txCount + 1) => sinceTx >= lastTx.delay]_vars

\* C17: the first two frames written after startup are GetOpenings and then
\* GetStatus, each sent with inc_counter, both by sync() before the comms loop
\* transmits anything from the queue; on a cold boot they carry 0 and 1.
C17_SyncFramesFirst ==
    /\ txCount = 1 =>
          /\ pc = "sync2"
          /\ lastTx.wrote
          /\ lastTx.pkt.cmd = "GetOpenings"
          /\ lastTx.inc_counter
          /\ bootR = 0 => lastTx.counter = 0
    /\ txCount = 2 =>
          /\ lastTx.wrote
          /\ lastTx.pkt.cmd = "GetStatus"
          /\ lastTx.inc_counter
          /\ bootR = 0 => lastTx.counter = 1

C19_ResetLeavesStoreEmpty ==
    (pc = "start" /\ boots > 0 /\ nvRam["id_code"] = Absent) =>
        /\ nvRam["rolling"] \in {Absent, 0}
        /\ nvRam["has_motion"] = Absent

\* C20: at the restart of a sync_and_restart() the stored rolling value equals
\* rolling_code.
C20_RestartSavesRollingCode ==
    [][(restarting /\ ~restarting') => nvRam["rolling"] = rolling_code]_vars

\* the request of a control-surface call is for the state that already holds
AlreadyHolds(c) ==
    \/ c.op = "open_door" /\ garage_door.current_state = "CURR_OPEN"
    \/ c.op = "close_door" /\ garage_door.current_state = "CURR_CLOSED"
    \/ c.op = "set_light" /\ c.arg = garage_door.light
    \/ c.op = "set_lock" /\ c.arg /\ garage_door.current_lock = "CURR_LOCKED"
    \/ c.op = "set_lock" /\ ~c.arg /\ garage_door.current_lock = "CURR_UNLOCKED"

\* C21: a control-surface request for the state that already holds enqueues
\* no PacketAction and starts no timer: open_door() with the door Open,
\* close_door() with the door Closed, set_light(v) with light = v, set_lock(v)
\* with the lock already in that state.
C21_NoTrafficWhenStateHolds ==
    [][(lastCall' # lastCall /\ AlreadyHolds(lastCall')) =>
          /\ pkt_q' = pkt_q
          /\ TTCtimer' = TTCtimer
          /\ TTCcountdown' = TTCcountdown
      ]_vars

\* C21 witness: a Status packet reported the light on, set_light(true) was
\* called, and nothing but the two sync frames and the status request of the
\* startup was ever sent or is queued
C21_Witness ==
    /\ lastCall = Call("set_light", TRUE, lastCall.seq)
    /\ garage_door.active
    /\ garage_door.light
    /\ txCount = 3
    /\ pkt_q = <<>>
    /\ ~TTCtimer

\* press, release and status request of one door action
DoorPair(action) ==
    <<PacketAction(Packet("DoorAction", action, TRUE), FALSE, DoorPressDelay),
      PacketAction(Packet("DoorAction", action, FALSE), TRUE, DoorReleaseDelay),
      GetStatusAction>>

\* no action for the given door action is added to the queue by the step
NoNew(action) ==
    \A i \in (Len(pkt_q) + 1)..Len(pkt_q') : pkt_q'[i].pkt.arg # action

C23_FullQueueDropsEnqueue ==
    /\ [](Len(pkt_q) <= PktQueueLen)
    /\ [][Len(pkt_q) = PktQueueLen =>
            /\ pkt_q' = pkt_q \/ pkt_q' = Tail(pkt_q)
            /\ lastCall' # lastCall => pkt_q' = pkt_q
         ]_vars

\* C23 witness: nothing has left the queue since the sync, it holds 5 actions
\* after two calls, and a third call that had something to enqueue was made
C23_Witness ==
    /\ Len(pkt_q) = PktQueueLen
    /\ txCount = 2
    /\ cfgTTC = 0
    /\ uart_q = <<>>
    /\ ~garage_door.active
    /\ ops = 3

\* the action at place i of a queue completes a command of the control
\* surface: a Light or Lock packet, or the release of a door action
CompletesCommand(q, i) ==
    \/ q[i].pkt.cmd \in {"Light", "Lock"}
    \/ q[i].pkt.cmd = "DoorAction" /\ ~q[i].pkt.pressed

\* C24 as stated: every command the control surface enqueues is followed in
\* the queue by a GetStatus with inc_counter; on Security+ 1.0 send_get_status
\* enqueues nothing.
C24_StatusFollowsEveryCommand ==
    /\ [][\A i \in (Len(pkt_q) + 1)..Len(pkt_q') :
            CompletesCommand(pkt_q', i) =>
                (i < Len(pkt_q') /\ pkt_q'[i + 1] = GetStatusAction)]_vars
    /\ [](SendGetStatusFor(1, pkt_q) = pkt_q)

\* C24 amended: every command the control surface enqueues is followed in
\* the queue by a GetStatus with inc_counter unless the command took the last
\* free place of the queue, in which case the GetStatus is dropped; on
\* Security+ 1.0 send_get_status enqueues nothing.
C24_StatusFollowsCommandWithRoom ==
    /\ [][\A i \in (Len(pkt_q) + 1)..Len(pkt_q') :
            (CompletesCommand(pkt_q', i) /\ i < PktQueueLen) =>
                (i < Len(pkt_q') /\ pkt_q'[i + 1] = GetStatusAction)]_vars
    /\ [](SendGetStatusFor(1, pkt_q) = pkt_q)

\* C24 witness: set_lock(true) put a Lock packet and the GetStatus behind it
\* in the queue
C24_Witness ==
    /\ lastCall = Call("set_lock", TRUE, lastCall.seq)
    /\ Len(pkt_q) >= 2
    /\ pkt_q[Len(pkt_q) - 1].pkt = Packet("Lock", "On", FALSE)
    /\ pkt_q[Len(pkt_q)] = GetStatusAction

\* the step in which the comms task processes a received Status packet
StatusStep ==
    /\ pc = "loop"
    /\ uart_q # <<>>
    /\ Head(uart_q).cmd = "Status"
    /\ uart_q' = Tail(uart_q)

\* C25: notify_active is emitted exactly once per boot, while the first
\* Status packet is processed, and garage_door.active, once true, never
\* becomes false again.
C25_ActiveNotifiedOnce ==
    /\ [](activeNotes = IF garage_door.active THEN 1 ELSE 0)
    /\ [][StatusStep => ("active" \in notes' <=> ~garage_door.active)]_vars
    /\ [][garage_door.active => garage_door'.active]_vars

\* C25 witness: a later Status packet changed the door of an active opener
\* and notify_active was not emitted again
C25_Witness ==
    /\ garage_door.active
    /\ activeNotes = 1
    /\ "current_door" \in notes
    /\ "active" \notin notes

\* C26: while a Status packet is processed notify_current_door_state is
\* emitted when the door state changes, notify_target_door_state only if
\* target_state changed, and neither when neither field changed.
C26_TargetNotifiedOnlyOnChange ==
    [][StatusStep =>
        LET curChanged == garage_door'.current_state # garage_door.current_state
            tgtChanged == garage_door'.target_state # garage_door.target_state
        IN  /\ curChanged => "current_door" \in notes'
            /\ "target_door" \in notes' => tgtChanged
            /\ (~curChanged /\ ~tgtChanged) =>
                  notes' \cap {"current_door", "target_door"} = {}
      ]_vars

MotionStep ==
    /\ pc = "loop"
    /\ uart_q # <<>>
    /\ Head(uart_q).cmd = "Motion"
    /\ uart_q' = Tail(uart_q)

\* C28: the first Motion packet received while has_motion_sensor is false
\* sets the flag, stores has_motion = 1, so that the flag is true after the
\* next reboot, and signals the new sensor; later Motion packets neither
\* store again nor signal.
C28_FirstMotionPersistsFlag ==
    /\ [][(MotionStep /\ ~garage_door.has_motion_sensor) =>
            /\ garage_door'.has_motion_sensor
            /\ nvRam'["has_motion"] = 1
            /\ "enable_motion" \in notes']_vars
    /\ [][(MotionStep /\ garage_door.has_motion_sensor) =>
            /\ nvRam'["has_motion"] = nvRam["has_motion"]
            /\ "enable_motion" \notin notes'
            /\ restarting' = restarting]_vars
    /\ [](garage_door.has_motion_sensor => HasMotionAtBoot(nvRam))

\* the step in which the comms task processes a press of the door button
PressStep ==
    /\ pc = "loop"
    /\ uart_q # <<>>
    /\ Head(uart_q).cmd = "DoorAction"
    /\ Head(uart_q).pressed
    /\ uart_q' = Tail(uart_q)

\* the soft-AP restart is armed: 6 ticks of the 500 ms timer, then
\* sync_and_restart
Armed ==
    /\ TTCcountdown = force_recover_delay * 2
    /\ TTC_Action = "sync_and_restart"
    /\ TTCtimer
    /\ softAP

\* C29: whenever the last five presses fall within 3 s the press arms the
\* grace period of 6 ticks that ends in the soft-AP restart, and a press
\* without five presses in 3 s arms nothing.
C29_FivePressesArmRecovery ==
    [][PressStep =>
        LET five == /\ Len(pressTimes') = RecoveryPresses
                    /\ pressTimes'[RecoveryPresses] - pressTimes'[1] <= RecoveryWindow
        IN  /\ five => Armed'
            /\ ~five => UNCHANGED <<ttcVars, softAP>>
      ]_vars

\* C30: every field of garage_door is written only by the comms task: a
\* step that changes garage_door is the comms loop processing a received
\* packet, never a control-surface call or the tick of the TTC timer.
C30_OnlyCommsTaskWritesGarageDoor ==
    [][garage_door' # garage_door =>
          (pc = "loop" /\ uart_q # <<>> /\ uart_q' = Tail(uart_q))]_vars

\* C31: while a Status packet is processed the lock notifications are
\* emitted if and only if the packet's lock differs from current_lock,
\* whatever target_lock holds, and then both lock fields take the packet's
\* value; light is updated and notified if and only if the packet's light
\* differs from garage_door.light.
C31_LockComparedWithCurrent ==
    [][StatusStep =>
        LET p == Head(uart_q)
            cl == IF p.lock THEN "CURR_LOCKED" ELSE "CURR_UNLOCKED"
            tl == IF p.lock THEN "TGT_LOCKED" ELSE "TGT_UNLOCKED"
            differs == cl # garage_door.current_lock
        IN  /\ differs => /\ {"target_lock", "current_lock"} \subseteq notes'
                           /\ garage_door'.current_lock = cl
                           /\ garage_door'.target_lock = tl
            /\ ~differs => /\ notes' \cap {"target_lock", "current_lock"} = {}
                            /\ garage_door'.current_lock = garage_door.current_lock
                            /\ garage_door'.target_lock = garage_door.target_lock
            /\ ("light" \in notes') <=> (p.light # garage_door.light)
            /\ garage_door'.light = p.light
      ]_vars

\* C31 witness: the last Status packet processed reported lock and light on
\* to an opener held unlocked and dark: both lock notifications and the light
\* notification were emitted and the three fields hold the packet's values
C31_Witness ==
    /\ {"target_lock", "current_lock", "light"} \subseteq notes
    /\ "active" \notin notes
    /\ garage_door.current_lock = "CURR_LOCKED"
    /\ garage_door.target_lock = "TGT_LOCKED"
    /\ garage_door.light

C34_AcceptedEventuallyWritten ==
    /\ (pkt_q # <<>>) ~> (pkt_q = <<>>)
    /\ [][txCount' # txCount =>
            (pc = "loop" => (pkt_q # <<>> /\ pkt_q' = Tail(pkt_q)))]_vars

\* C35: while a close countdown is pending no step replaces the stored close
\* action by the restart or cancels it, and while the recovery grace period
\* is pending no step stops the timer short of the restart or puts a door
\* command on the queue.
PendingClose ==
    TTCtimer /\ TTCcountdown > 0 /\ TTC_Action = "door_command_close"

PendingRestart ==
    TTCtimer /\ TTCcountdown > 0 /\ TTC_Action = "sync_and_restart" /\ ~restarting

DoorActionsQueued(q) == Cardinality({i \in DOMAIN q : q[i].pkt.cmd = "DoorAction"})

C35_CountdownsDoNotInterfere ==
    /\ [][PendingClose => TTC_Action' = "door_command_close"]_vars
    /\ [][PendingRestart =>
            /\ TTCtimer' \/ restarting'
            /\ DoorActionsQueued(pkt_q') <= DoorActionsQueued(pkt_q)]_vars

\* C36: once the comms task has saved the rolling code at startup,
\* last_saved_code equals the value a read of "rolling" from durable storage
\* returns (0 when the key is erased).
C36_LastSavedIsStored ==
    (pc # "start" /\ ~restarting) => NvRead("rolling", 0) = last_saved_code

\* the comms task processes a received packet of one of the commands cmds
RxStep(cmds) ==
    /\ pc = "loop"
    /\ uart_q # <<>>
    /\ Head(uart_q).cmd \in cmds
    /\ uart_q' = Tail(uart_q)

\* C37 as stated: processing a Status packet leaves the packet queue as it
\* is, processing a Light, Lock or Motion packet appends exactly one
\* GetStatus, and the queue ends up empty for good.
C37_EachFrameOneGetStatus ==
    /\ [][RxStep({"Status"}) => pkt_q' = pkt_q]_vars
    /\ [][RxStep({"Light", "Lock", "Motion"}) => pkt_q' = Append(pkt_q, GetStatusAction)]_vars
    /\ <>[](pkt_q = <<>>)

\* C37 amended: processing a Status packet leaves the packet queue as it is,
\* processing a Light, Lock or Motion packet appends exactly one GetStatus
\* when the queue has a free place and nothing when it is full, and the
\* queue ends up empty for good.
C37_EachFrameOneGetStatusWithRoom ==
    /\ [][RxStep({"Status"}) => pkt_q' = pkt_q]_vars
    /\ [][RxStep({"Light", "Lock", "Motion"}) =>
            pkt_q' = IF Len(pkt_q) < PktQueueLen
                     THEN Append(pkt_q, GetStatusAction)
                     ELSE pkt_q]_vars
    /\ <>[](pkt_q = <<>>)

\* the initial GetStatus, the three actions of close_door() and the GetStatus
\* of one received packet have filled the queue, and a second received
\* packet, not a Status, has been processed since
C37_Witness ==
    /\ pc = "loop"
    /\ ops = MaxWallOps
    /\ uart_q = <<>>
    /\ ~garage_door.active
    /\ txCount = 2
    /\ Len(pkt_q) = PktQueueLen
    /\ pkt_q[2].pkt.cmd = "DoorAction"
    /\ pkt_q[5] = GetStatusAction

\* target_lock and current_lock name the same lock state
LockAgrees(gd) ==
    \/ gd.target_lock = "TGT_LOCKED" /\ gd.current_lock = "CURR_LOCKED"
    \/ gd.target_lock = "TGT_UNLOCKED" /\ gd.current_lock = "CURR_UNLOCKED"

\* C38: once a Status packet is processed, target_lock agrees with
\* current_lock, whatever set_lock wrote before and also when the packet
\* reports the lock unchanged.
C38_StatusRealignsTargetLock ==
    [][RxStep({"Status"}) => LockAgrees(garage_door')]_vars

\* every edge of the line is processed and the receiver is back in Idle
UartQuiet == edges = <<>> /\ rx_state = "Idle"

\* C39: the byte whose stop bit is low is never delivered to the byte queue,
\* and once the line is quiet the byte queue holds the well-formed byte that
\* followed, once.
C39_ResyncAfterFramingError ==
    /\ rx_q \in {<<>>, <<sentByte>>}
    /\ UartQuiet => rx_q = <<sentByte>>

=============================================================================
